---- MODULE Spec2Model ----
(***************************************************************************)
(* Model of the Diablo 4 paragon board layout enumerator                   *)
(* (src/board.py, src/paragon.py).                                         *)
(*                                                                         *)
(* Python lists are TLA+ sequences, so list index i of the source is       *)
(* sequence index i+1 here; row and col keep the 0-based values of the     *)
(* source.  A str is a sequence of one-character strings.                  *)
(***************************************************************************)
EXTENDS Integers, Sequences, FiniteSets, TLC

\* ------------------------------------------------------------------------
\* Bounds of the model
\* ------------------------------------------------------------------------

\* Largest number of board files loaded (total_boards).
MaxBoards == 3

\* Edge length of the boards fed to the search.  The source fixes
\* board_edge_len to 21 (paragon.py:46); the model scales it down.
BoardEdgeLen == 2

\* Largest edge length of the boards handed to Board.rotate.
MaxRotEdge == 2

\* Largest |R| passed to Board.rotate, and longest chain of rotate calls.
MaxTurns == 5
MaxCalls == 2

\* Largest board count handed to the geometry functions.
MaxCount == 40

\* ------------------------------------------------------------------------
\* Board (src/board.py)
\* ------------------------------------------------------------------------

\* Board.__init__
Board(name, board) == [name |-> name, board |-> board, is_base |-> (name = "base")]

\* rotated_board[::-1]
ReverseRows(b) == [i \in 1..Len(b) |-> b[Len(b) + 1 - i]]

\* Length of the shortest row: zip stops at the shortest argument.
MinRowLen(b) ==
    IF Len(b) = 0 THEN 0
    ELSE CHOOSE k \in {Len(b[i]) : i \in 1..Len(b)} :
             \A i \in 1..Len(b) : k <= Len(b[i])

\* [list(row) for row in zip(*x)]
ZipRows(x) == [j \in 1..MinRowLen(x) |-> [i \in 1..Len(x) |-> x[i][j]]]

\* Faulty variant of QuarterTurn: transposes without reversing the rows.
QuarterTurnNoReverse(b) == ZipRows(b)

\* One pass of the loop body of Board.rotate.
QuarterTurn(b) == ZipRows(ReverseRows(b))

RECURSIVE RotateLoop(_, _)
\* for _ in range(count): rotated_board = ...
RotateLoop(b, count) ==
    IF count <= 0 THEN b ELSE RotateLoop(QuarterTurn(b), count - 1)

\* Board.rotate
rotate(b, R) == Board(b.name, RotateLoop(b.board, R % 4))

\* ------------------------------------------------------------------------
\* Geometry (src/paragon.py)
\* ------------------------------------------------------------------------

\* raise ValueError("n must be >= 1"), in both geometry functions
ValueError == "ValueError"
RaisesValueError(n) == n < 1

\* ParagonBoard.get_meta_board_dimensions, where it returns
get_meta_board_dimensions(n) ==
    IF n = 1 THEN <<1, 1>>
    ELSE IF n = 2 THEN <<2, 1>>
    ELSE IF n = 3 THEN <<3, 3>>
    ELSE <<2 * n - 4, 2 * n - 3>>

\* Faulty variant of get_meta_board_start: row and column swapped from
\* n = 4 on.
get_meta_board_start_swapped(n) ==
    IF n = 1 THEN <<0, 0>>
    ELSE IF n = 2 THEN <<1, 0>>
    ELSE IF n = 3 THEN <<2, 1>>
    ELSE <<n - 2, n - 1>>

\* ParagonBoard.get_meta_board_start, where it returns
get_meta_board_start(n) ==
    IF n = 1 THEN <<0, 0>>
    ELSE IF n = 2 THEN <<1, 0>>
    ELSE IF n = 3 THEN <<2, 1>>
    ELSE <<n - 1, n - 2>>

\* ParagonBoard.generate_blank_board
generate_blank_board(E) == Board("blank", [i \in 1..E |-> [j \in 1..E |-> "-"]])

\* ParagonBoard.generate_blank_paragon
generate_blank_paragon(n, E) ==
    LET dims == get_meta_board_dimensions(n)
    IN  [r \in 1..dims[1] |-> [c \in 1..dims[2] |-> generate_blank_board(E)]]

\* ------------------------------------------------------------------------
\* List indexing of Python
\* ------------------------------------------------------------------------

\* lst[i] is defined for -len <= i < len; a negative i counts from the end.
InRange(len, i) == -len <= i /\ i < len
PyIndex(len, i) == IF i < 0 THEN i + len + 1 ELSE i + 1

\* meta_board[row][col]
CellAt(m, r, c) == m[PyIndex(Len(m), r)][PyIndex(Len(m[1]), c)]

\* m[row][col] = b
SetCell(m, r, c, b) ==
    LET i == PyIndex(Len(m), r)
        j == PyIndex(Len(m[1]), c)
    IN  [x \in 1..Len(m) |->
            IF x # i THEN m[x]
            ELSE [y \in 1..Len(m[x]) |-> IF y = j THEN b ELSE m[x][y]]]

\* ------------------------------------------------------------------------
\* Placement search
\* ------------------------------------------------------------------------

\* Faulty variant of directions: the last rotation is missing.
directionsThree == <<0, 1, 2>>

\* directions = [0, 1, 2, 3]
directions == <<0, 1, 2, 3>>

\* Faulty variant of TempQueue: drops the head of the queue, whichever
\* board was placed.
TempQueueTail(q, b) == Tail(q)

\* temp_queue = [obj for obj in queue if obj.name != b.name]
TempQueue(q, b) == SelectSeq(q, LAMBDA obj : obj.name # b.name)

\* queue built by enumerate_boards from available_boards.values()
InitialQueue(boards) == SelectSeq(boards, LAMBDA b : b.is_base = FALSE)

\* available_boards['base']
BaseBoard(boards) == CHOOSE b \in {boards[i] : i \in 1..Len(boards)} : b.name = "base"

\* meta_board after line 203 of enumerate_boards
InitialMetaBoard(boards, E) ==
    LET st == get_meta_board_start(Len(boards))
    IN  SetCell(generate_blank_paragon(Len(boards), E), st[1], st[2], BaseBoard(boards))

\* Faulty variants of StartCell: the search starts left of the anchor, or
\* below it.
StartCellLeft(st) == <<st[1], st[2] - 1>>
StartCellBelow(st) == <<st[1] + 1, st[2]>>

\* (r-1, c): the cell of the first recur_enumerate_boards call
StartCell(st) == <<st[1] - 1, st[2]>>

\* Faulty variant of IsOccupied: no cell counts as occupied.
IsOccupiedNever(m, r, c) == FALSE

\* meta_board[row][col].name != 'blank'
IsOccupied(m, r, c) == CellAt(m, r, c).name # "blank"

\* Faulty variant of NeighbourCalls: the call to the left is missing.
NeighbourCallsNoLeft(m, r, c) ==
    (IF r + 1 < Len(m)    THEN << <<r + 1, c>> >> ELSE << >>) \o
    (IF r - 1 >= 0        THEN << <<r - 1, c>> >> ELSE << >>) \o
    (IF c + 1 < Len(m[1]) THEN << <<r, c + 1>> >> ELSE << >>)

\* The cells recur_enumerate_boards recurses into after a placement at
\* (r, c), in the order of its four guarded calls.
NeighbourCalls(m, r, c) ==
    (IF r + 1 < Len(m)    THEN << <<r + 1, c>> >> ELSE << >>) \o
    (IF r - 1 >= 0        THEN << <<r - 1, c>> >> ELSE << >>) \o
    (IF c + 1 < Len(m[1]) THEN << <<r, c + 1>> >> ELSE << >>) \o
    (IF c - 1 >= 0        THEN << <<r, c - 1>> >> ELSE << >>)

RECURSIVE recur_enumerate_boards(_, _, _, _)
RECURSIVE RecurCalls(_, _, _, _)
RECURSIVE RecurLoop(_, _, _, _, _)

\* The recursive calls of one loop iteration, from the i-th call on.
RecurCalls(i, calls, temp_queue, m) ==
    IF i > Len(calls) THEN << >>
    ELSE recur_enumerate_boards(calls[i][1], calls[i][2], temp_queue, m)
         \o RecurCalls(i + 1, calls, temp_queue, m)

\* Iterations k, k+1, ... of "for b in queue: for d in directions:".
RecurLoop(k, r, c, q, mb) ==
    IF k > Len(q) * Len(directions) THEN << >>
    ELSE LET b == q[((k - 1) \div Len(directions)) + 1]
             d == directions[((k - 1) % Len(directions)) + 1]
             m == SetCell(mb, r, c, rotate(b, d))
             temp_queue == TempQueue(q, b)
         IN  RecurCalls(1, NeighbourCalls(mb, r, c), temp_queue, m)
             \o RecurLoop(k + 1, r, c, q, mb)

\* ParagonBoard.recur_enumerate_boards: the layouts it appends to
\* meta_boards, in the order it appends them.
recur_enumerate_boards(r, c, q, mb) ==
    IF Len(q) = 0 THEN << mb >>
    ELSE IF IsOccupied(mb, r, c) THEN << >>
    ELSE RecurLoop(1, r, c, q, mb)

\* ParagonBoard.enumerate_boards: the layouts one call appends.
enumerate_boards(boards, E) ==
    LET st == StartCell(get_meta_board_start(Len(boards)))
    IN  recur_enumerate_boards(st[1], st[2], InitialQueue(boards),
                               InitialMetaBoard(boards, E))

\* ------------------------------------------------------------------------
\* Stitcher
\* ------------------------------------------------------------------------

RECURSIVE JoinFrom(_, _, _)
JoinFrom(sep, parts, i) ==
    IF i > Len(parts) THEN << >>
    ELSE IF i = Len(parts) THEN parts[i]
    ELSE parts[i] \o sep \o JoinFrom(sep, parts, i + 1)

\* sep.join(parts)
JoinWith(sep, parts) == JoinFrom(sep, parts, 1)

\* " | "
Separator == <<" ", "|", " ">>

\* ch * count (empty when count <= 0)
Repeat(ch, count) == [i \in 1..(IF count > 0 THEN count ELSE 0) |-> ch]

\* '=' * (board_edge_len * len(m) + 3 * (len(m) - 1))
Divider(m, E) == Repeat("=", E * Len(m) + 3 * (Len(m) - 1))

\* Lines appended to stitched for one m_row of the layout m.
StitchBand(m, m_row, E) ==
    [b_row \in 1..E |->
        JoinWith(Separator, [c \in 1..Len(m_row) |-> m_row[c].board[b_row]])]
    \o << Divider(m, E) >>

RECURSIVE StitchRows(_, _, _)
\* for m_row in m, from row index r on
StitchRows(m, r, E) ==
    IF r > Len(m) THEN << >>
    ELSE StitchBand(m, m[r], E) \o StitchRows(m, r + 1, E)

\* ParagonBoard.stitch_boards: the layouts one call appends to
\* stitched_patterns.
stitch_boards(mbs, E) == [i \in 1..Len(mbs) |-> StitchRows(mbs[i], 1, E)]

\* ------------------------------------------------------------------------
\* State
\* ------------------------------------------------------------------------

VARIABLES
    pc,                 \* position of the program
    directory,          \* the class directory read by load_boards
    available_boards,   \* values of self.available_boards, in dict order
    total_boards,       \* self.total_boards
    meta_boards,        \* self.meta_boards
    stitched_patterns,  \* self.stitched_patterns
    row, col,           \* arguments of the current recur_enumerate_boards call
    queue,              \* its queue argument
    meta_board,         \* its meta_board argument
    rot_self,           \* the Board that rotate is called on
    rot_R,              \* argument R of the last rotate call
    rot_result,         \* Board returned by the last rotate call
    rot_total,          \* sum of the R of the rotate calls chained so far
    rot_calls,          \* number of rotate calls chained so far
    geo_n,              \* total_boards seen by the geometry functions
    geo_dims,           \* result of get_meta_board_dimensions
    geo_start,          \* result of get_meta_board_start
    geo_raised          \* a geometry function raised ValueError

searchVars == <<pc, directory, available_boards, total_boards, meta_boards,
                stitched_patterns, row, col, queue, meta_board>>
rotVars == <<rot_self, rot_R, rot_result, rot_total, rot_calls>>
geoVars == <<geo_n, geo_dims, geo_start, geo_raised>>

vars == <<searchVars, rotVars, geoVars>>

\* Values of the parts of the state that are not in use.
NoBoard == Board("", << >>)
NoDirectory == [exists |-> FALSE, files |-> << >>]

\* The parts of the state a specification does not use stay at rest.
SearchIdle ==
    /\ pc = "idle" /\ directory = NoDirectory /\ available_boards = << >>
    /\ total_boards = 0 /\ meta_boards = << >> /\ stitched_patterns = << >>
    /\ row = 0 /\ col = 0 /\ queue = << >> /\ meta_board = << >>
RotIdle ==
    /\ rot_self = NoBoard /\ rot_R = 0 /\ rot_result = NoBoard
    /\ rot_total = 0 /\ rot_calls = 0
GeoIdle == geo_n = 0 /\ geo_dims = << >> /\ geo_start = << >> /\ geo_raised = FALSE

\* ------------------------------------------------------------------------
\* Board files
\* ------------------------------------------------------------------------

\* Tile symbols of the board files (paragon.py:26-33).
Tiles == <<"S", "G", "L", "Y", "R", "r", "M", "m", "N", "n">>

\* Ways the boards of a class directory are drawn: every tile different,
\* one tile, one tile per row, two tiles in a checkerboard.
Styles == {"patterned", "uniform", "striped", "checkered"}

Tile(k) == Tiles[(k % Len(Tiles)) + 1]

\* Lines of the idx-th board file of a directory drawn in the given style.
BoardData(style, idx, E) ==
    [i \in 1..E |-> [j \in 1..E |->
        IF style = "patterned" THEN Tile(idx + (i - 1) * E + j)
        ELSE IF style = "uniform" THEN Tile(idx)
        ELSE IF style = "striped" THEN Tile(idx + i)
        ELSE Tile(idx + ((i + j) % 2))]]

\* File names without extension; 'base' is the one load_boards requires.
BoardNames == <<"base", "glyph", "gate", "rare", "magic">>

RECURSIVE Ascending(_)
Ascending(S) ==
    IF S = {} THEN << >>
    ELSE LET x == CHOOSE y \in S : \A z \in S : y <= z
         IN  <<x>> \o Ascending(S \ {x})

Reversed(s) == [i \in 1..Len(s) |-> s[Len(s) + 1 - i]]

\* Orders in which os.listdir may return the files numbered S.
ListingOrders(S) == {Ascending(S), Reversed(Ascending(S))}

\* Directory listings: the .txt files of the class directory, each with
\* the name before the extension and the parsed lines.
Listings ==
    UNION { UNION { { [exists |-> TRUE,
                       files |-> [i \in 1..Len(ord) |->
                          [name |-> BoardNames[ord[i]],
                           data |-> BoardData(style, ord[i], BoardEdgeLen)]]]
                      : style \in Styles }
                    : ord \in ListingOrders(S) }
            : S \in SUBSET (1..MaxBoards) }

\* State before ParagonBoard.__init__ calls load_boards.
Init ==
    /\ pc = "init"
    /\ directory \in Listings \cup {NoDirectory}
    /\ available_boards = << >>
    /\ total_boards = 0
    /\ meta_boards = << >>
    /\ stitched_patterns = << >>
    /\ row = 0 /\ col = 0 /\ queue = << >> /\ meta_board = << >>
    /\ RotIdle /\ GeoIdle

\* ParagonBoard.load_boards
LoadBoards ==
    /\ pc = "init"
    /\ IF ~directory.exists
       THEN /\ pc' = "loaded"
            /\ UNCHANGED <<available_boards, total_boards>>
       ELSE LET files == directory.files
            IN  /\ available_boards' =
                    [i \in 1..Len(files) |-> Board(files[i].name, files[i].data)]
                /\ total_boards' = Len(files)
                /\ pc' = IF \E i \in 1..Len(files) : files[i].name = "base"
                         THEN "loaded" ELSE "exit"
    /\ UNCHANGED <<directory, meta_boards, stitched_patterns, row, col, queue,
                   meta_board, rotVars, geoVars>>

\* ------------------------------------------------------------------------
\* The search, one recursive call at a time.  A behaviour follows one
\* path of the recursion tree: at each call it takes one iteration of the
\* loops and one of the four recursive calls of that iteration.
\* ------------------------------------------------------------------------

\* enumerate_boards up to its call of recur_enumerate_boards
StartSearch ==
    /\ pc = "loaded"
    /\ IF RaisesValueError(total_boards)
       THEN /\ pc' = ValueError
            /\ UNCHANGED <<row, col, queue, meta_board>>
       ELSE LET st == StartCell(get_meta_board_start(total_boards))
            IN  /\ meta_board' = InitialMetaBoard(available_boards, BoardEdgeLen)
                /\ queue' = InitialQueue(available_boards)
                /\ row' = st[1]
                /\ col' = st[2]
                /\ pc' = "call"
    /\ UNCHANGED <<directory, available_boards, total_boards, meta_boards,
                   stitched_patterns, rotVars, geoVars>>

\* len(queue) == 0: append the layout and return
Record ==
    /\ pc = "call"
    /\ Len(queue) = 0
    /\ meta_boards' = Append(meta_boards, meta_board)
    /\ pc' = "recorded"
    /\ UNCHANGED <<directory, available_boards, total_boards, stitched_patterns,
                   row, col, queue, meta_board, rotVars, geoVars>>

\* meta_board[row][col].name != 'blank': return; the read raises
\* IndexError when row or col is out of range
Prune ==
    /\ pc = "call"
    /\ Len(queue) # 0
    /\ IF ~(InRange(Len(meta_board), row) /\ InRange(Len(meta_board[1]), col))
       THEN pc' = "IndexError"
       ELSE IsOccupied(meta_board, row, col) /\ pc' = "pruned"
    /\ UNCHANGED <<directory, available_boards, total_boards, meta_boards,
                   stitched_patterns, row, col, queue, meta_board, rotVars, geoVars>>

\* One iteration of the loops and one of its recursive calls.
Place ==
    /\ pc = "call"
    /\ Len(queue) # 0
    /\ InRange(Len(meta_board), row) /\ InRange(Len(meta_board[1]), col)
    /\ ~IsOccupied(meta_board, row, col)
    /\ \E i \in 1..Len(queue), j \in 1..Len(directions) :
         LET b == queue[i]
             d == directions[j]
             m == SetCell(meta_board, row, col, rotate(b, d))
             calls == NeighbourCalls(meta_board, row, col)
         IN  \E k \in 1..Len(calls) :
                /\ row' = calls[k][1]
                /\ col' = calls[k][2]
                /\ queue' = TempQueue(queue, b)
                /\ meta_board' = m
    /\ pc' = "call"
    /\ UNCHANGED <<directory, available_boards, total_boards, meta_boards,
                   stitched_patterns, rotVars, geoVars>>

\* ParagonBoard.stitch_boards
StitchBoards ==
    /\ pc = "recorded"
    /\ meta_boards # << >>
    /\ stitched_patterns' = stitched_patterns \o stitch_boards(meta_boards, BoardEdgeLen)
    /\ pc' = "stitched"
    /\ UNCHANGED <<directory, available_boards, total_boards, meta_boards,
                   row, col, queue, meta_board, rotVars, geoVars>>

Next == LoadBoards \/ StartSearch \/ Record \/ Prune \/ Place \/ StitchBoards

Spec == Init /\ [][Next]_vars

\* The program is sequential: it always takes its next step.
FairSpec == Spec /\ WF_vars(Next)

\* ------------------------------------------------------------------------
\* The search as one call of enumerate_boards
\* ------------------------------------------------------------------------

EnumerateBoards ==
    /\ pc = "loaded"
    /\ IF RaisesValueError(total_boards)
       THEN /\ pc' = ValueError
            /\ UNCHANGED meta_boards
       ELSE /\ meta_boards' =
                meta_boards \o enumerate_boards(available_boards, BoardEdgeLen)
            /\ pc' = "enumerated"
    /\ UNCHANGED <<directory, available_boards, total_boards, stitched_patterns,
                   row, col, queue, meta_board, rotVars, geoVars>>

EnumNext == LoadBoards \/ EnumerateBoards

EnumSpec == Init /\ [][EnumNext]_vars

\* ------------------------------------------------------------------------
\* Board.rotate on its own
\* ------------------------------------------------------------------------

\* Square boards of edge 1..MaxRotEdge over two tiles.
RotBoards ==
    UNION { { Board("glyph", data) : data \in [1..E -> [1..E -> {"S", "G"}]] }
            : E \in 1..MaxRotEdge }

RotInit ==
    /\ rot_self \in RotBoards
    /\ rot_R = 0
    /\ rot_result = rot_self
    /\ rot_total = 0
    /\ rot_calls = 0
    /\ SearchIdle /\ GeoIdle

\* result = b.rotate(R), on the board itself
RotateCall ==
    /\ \E R \in (-MaxTurns)..MaxTurns :
          /\ rot_result' = rotate(rot_self, R)
          /\ rot_R' = R
          /\ rot_total' = R
    /\ rot_calls' = 1
    /\ UNCHANGED <<rot_self, searchVars, geoVars>>

\* result = result.rotate(R), on the board the last call returned
RotateAgain ==
    /\ rot_calls >= 1
    /\ rot_calls < MaxCalls
    /\ \E R \in (-MaxTurns)..MaxTurns :
          /\ rot_result' = rotate(rot_result, R)
          /\ rot_R' = R
          /\ rot_total' = rot_total + R
    /\ rot_calls' = rot_calls + 1
    /\ UNCHANGED <<rot_self, searchVars, geoVars>>

RotNext == RotateCall \/ RotateAgain

RotateSpec == RotInit /\ [][RotNext]_vars

\* ------------------------------------------------------------------------
\* The geometry functions on their own
\* ------------------------------------------------------------------------

GeoInit ==
    /\ geo_n \in 0..MaxCount
    /\ geo_dims = << >>
    /\ geo_start = << >>
    /\ geo_raised = FALSE
    /\ SearchIdle /\ RotIdle

GetMetaBoardDimensions ==
    /\ geo_dims = << >>
    /\ ~geo_raised
    /\ IF RaisesValueError(geo_n)
       THEN geo_raised' = TRUE /\ UNCHANGED geo_dims
       ELSE geo_dims' = get_meta_board_dimensions(geo_n) /\ UNCHANGED geo_raised
    /\ UNCHANGED <<geo_n, geo_start, searchVars, rotVars>>

GetMetaBoardStart ==
    /\ geo_start = << >>
    /\ ~geo_raised
    /\ IF RaisesValueError(geo_n)
       THEN geo_raised' = TRUE /\ UNCHANGED geo_start
       ELSE geo_start' = get_meta_board_start(geo_n) /\ UNCHANGED geo_raised
    /\ UNCHANGED <<geo_n, geo_dims, searchVars, rotVars>>

GeoNext == GetMetaBoardDimensions \/ GetMetaBoardStart

GeomSpec == GeoInit /\ [][GeoNext]_vars

\* ------------------------------------------------------------------------
\* Vocabulary of the properties
\* ------------------------------------------------------------------------

\* Cells (row, col) of a layout, 0-based as in the source.
Cells(m) == {<<r, c>> : r \in 0..(Len(m) - 1), c \in 0..(Len(m[1]) - 1)}
BoardIn(m, cell) == m[cell[1] + 1][cell[2] + 1]
NonBlank(m) == {cell \in Cells(m) : BoardIn(m, cell).name # "blank"}
BlankCells(m) == Cells(m) \ NonBlank(m)

Anchor == get_meta_board_start(total_boards)
AboveAnchor == <<Anchor[1] - 1, Anchor[2]>>

Adjacent(a, b) ==
    \/ a[1] = b[1] /\ (a[2] = b[2] + 1 \/ b[2] = a[2] + 1)
    \/ a[2] = b[2] /\ (a[1] = b[1] + 1 \/ b[1] = a[1] + 1)

NonBase == {i \in 1..Len(available_boards) : ~available_boards[i].is_base}

\* The layouts recorded so far.
Recorded == {meta_boards[i] : i \in 1..Len(meta_boards)}

\* A quarter turn clockwise, cell by cell, and k of them.
Clockwise(b) == [i \in 1..Len(b) |-> [j \in 1..Len(b) |-> b[Len(b) + 1 - j][i]]]
HalfTurn(b) == [i \in 1..Len(b) |-> [j \in 1..Len(b) |-> b[Len(b) + 1 - i][Len(b) + 1 - j]]]
CounterClockwise(b) == [i \in 1..Len(b) |-> [j \in 1..Len(b) |-> b[j][Len(b) + 1 - i]]]
Turned(b, k) ==
    IF k = 0 THEN b
    ELSE IF k = 1 THEN Clockwise(b)
    ELSE IF k = 2 THEN HalfTurn(b)
    ELSE CounterClockwise(b)

\* ------------------------------------------------------------------------
\* C1
\* ------------------------------------------------------------------------

\* C1: every recorded layout has exactly total_boards non-blank cells: the
\* base board at the anchor, and each other board, in one of its four
\* rotations, in exactly one cell.
C1_EachBoardOnce ==
    \A m \in Recorded :
        /\ Cardinality(NonBlank(m)) = total_boards
        /\ BoardIn(m, Anchor) = BaseBoard(available_boards)
        /\ \A i \in NonBase :
              LET b == available_boards[i]
                  at == {cell \in Cells(m) : BoardIn(m, cell).name = b.name}
              IN  /\ Cardinality(at) = 1
                  /\ \A cell \in at : \E k \in 0..3 :
                        BoardIn(m, cell) = Board(b.name, Turned(b.board, k))

C1_Witness ==
    /\ pc = "recorded"
    /\ total_boards = 3
    /\ \E m \in Recorded : Cardinality(NonBlank(m)) = 3

\* ------------------------------------------------------------------------
\* C2
\* ------------------------------------------------------------------------

\* C2 as stated: no recorded layout has a blank cell.
C2_NoBlankCell == \A m \in Recorded : BlankCells(m) = {}

\* C2, amended: a recorded layout has rows*cols - total_boards blank cells,
\* which is none for one or two boards only.
C2_BlankCellCount ==
    \A m \in Recorded :
        LET dims == get_meta_board_dimensions(total_boards)
        IN  /\ Len(m) = dims[1] /\ Len(m[1]) = dims[2]
            /\ Cardinality(BlankCells(m)) = dims[1] * dims[2] - total_boards
            /\ (BlankCells(m) = {}) <=> (total_boards <= 2)

C2_Witness ==
    /\ pc = "recorded"
    /\ total_boards = 3
    /\ \E m \in Recorded : Cardinality(BlankCells(m)) = 6

\* ------------------------------------------------------------------------
\* C10
\* ------------------------------------------------------------------------

RECURSIVE PathThrough(_, _)
\* The cells of rest can be walked from cell, each step to a 4-neighbour,
\* visiting each exactly once.
PathThrough(cell, rest) ==
    \/ rest = {}
    \/ \E nb \in rest : Adjacent(cell, nb) /\ PathThrough(nb, rest \ {nb})

\* C10: with two boards or more, a recorded layout has the cell above the
\* anchor filled and its non-blank cells form one self-avoiding path that
\* starts at the anchor.
C10_SinglePath ==
    total_boards >= 2 =>
        \A m \in Recorded :
            /\ AboveAnchor \in NonBlank(m)
            /\ PathThrough(Anchor, NonBlank(m) \ {Anchor})
            /\ PathThrough(AboveAnchor, NonBlank(m) \ {Anchor, AboveAnchor})

C10_Witness ==
    /\ pc = "recorded"
    /\ total_boards = 3
    /\ \E m \in Recorded : <<AboveAnchor[1], AboveAnchor[2] - 1>> \in NonBlank(m)

\* ------------------------------------------------------------------------
\* C7
\* ------------------------------------------------------------------------

SearchOver == pc \in {"recorded", "pruned", "stitched"}

\* C7: no call reads or writes outside the grid, each recursive call gets
\* a queue one shorter than its caller's, and every path of the recursion
\* ends in a recorded layout or a prune.
C7_Total ==
    /\ [](pc # "IndexError")
    /\ []((pc = "call" /\ Len(queue) # 0) =>
             /\ 0 <= row /\ row < Len(meta_board)
             /\ 0 <= col /\ col < Len(meta_board[1]))
    /\ [][(pc = "call" /\ pc' = "call") => Len(queue') = Len(queue) - 1]_vars
    /\ [](pc = "call" => Len(queue) < total_boards)
    /\ ((pc = "loaded" /\ total_boards >= 1) ~> SearchOver)

C7_Witness ==
    /\ pc = "call"
    /\ total_boards = 3
    /\ Len(queue) = 1
    /\ row = 0

\* ------------------------------------------------------------------------
\* C4
\* ------------------------------------------------------------------------

\* Width of the content lines of a layout with cols columns.
StitchedWidth(numCols, E) == numCols * E + 3 * (numCols - 1)

\* C4 as stated: in every stitched layout each divider line is as long as
\* the content lines, cols*E + 3*(cols-1).
C4_DividerWidth ==
    pc = "stitched" =>
        \A i \in 1..Len(stitched_patterns) :
            LET lines == stitched_patterns[i]
                m == meta_boards[i]
                E == BoardEdgeLen
            IN  \A band \in 1..Len(m) :
                   /\ \A b_row \in 1..E :
                         Len(lines[(band - 1) * (E + 1) + b_row])
                             = StitchedWidth(Len(m[1]), E)
                   /\ Len(lines[band * (E + 1)]) = StitchedWidth(Len(m[1]), E)

\* ------------------------------------------------------------------------
\* C6
\* ------------------------------------------------------------------------

\* C6: one board gives the single layout [[base]]; two boards give four
\* layouts, the k-th with the other board turned k times at (0,0) above
\* the base at (1,0).
C6_EndToEnd ==
    pc = "enumerated" =>
        LET X == BaseBoard(available_boards)
        IN  /\ total_boards = 1 => meta_boards = << << <<X>> >> >>
            /\ total_boards = 2 =>
                  LET Y == available_boards[CHOOSE i \in NonBase : TRUE]
                  IN  /\ Len(meta_boards) = 4
                      /\ \A k \in 0..3 :
                            meta_boards[k + 1] =
                                << << Board(Y.name, Turned(Y.board, k)) >>, << X >> >>

C6_Witness ==
    /\ pc = "enumerated"
    /\ total_boards = 2
    /\ Len(meta_boards) = 4
    /\ meta_boards[1] # meta_boards[2]

\* ------------------------------------------------------------------------
\* C5
\* ------------------------------------------------------------------------

InGrid(cell, dims) ==
    /\ 0 <= cell[1] /\ cell[1] < dims[1]
    /\ 0 <= cell[2] /\ cell[2] < dims[2]

Neighbours(cell, dims) ==
    {nb \in {<<cell[1] + 1, cell[2]>>, <<cell[1] - 1, cell[2]>>,
             <<cell[1], cell[2] + 1>>, <<cell[1], cell[2] - 1>>} : InGrid(nb, dims)}

RECURSIVE SumOver(_, _)
SumOver(S, f) ==
    IF S = {} THEN 0
    ELSE LET x == CHOOSE y \in S : TRUE IN f[x] + SumOver(S \ {x}, f)

RECURSIVE CountChoices(_, _, _, _)
\* Number of ways to go on choosing (cell, board, rotation) from the target
\* cell on, with k boards left and the cells of filled taken, until no
\* board is left.
CountChoices(cell, filled, k, dims) ==
    IF cell \in filled THEN 0
    ELSE 4 * k * (IF k = 1 THEN 1
                  ELSE LET nbs == Neighbours(cell, dims)
                       IN  SumOver(nbs, [nb \in nbs |->
                               CountChoices(nb, filled \cup {cell}, k - 1, dims)]))

\* Number of choice sequences that empty the queue of n - 1 boards.
NumChoiceSequences(n) ==
    IF n = 1 THEN 1
    ELSE LET st == get_meta_board_start(n)
         IN  CountChoices(<<st[1] - 1, st[2]>>, {st}, n - 1,
                          get_meta_board_dimensions(n))

\* C5 as stated: one call of enumerate_boards records as many layouts as
\* there are choice sequences that empty the queue.
C5_OneRecordPerSequence ==
    pc = "enumerated" => Len(meta_boards) = NumChoiceSequences(total_boards)

\* ------------------------------------------------------------------------
\* C3
\* ------------------------------------------------------------------------

\* One-to-one assignments of the non-base boards to the positions of a
\* list of total_boards - 1 cells.
Assignments ==
    {f \in [1..(total_boards - 1) -> NonBase] :
        \A a, b \in 1..(total_boards - 1) : a # b => f[a] # f[b]}

\* The layout with the base at the anchor and board f[i], turned rot[i]
\* times, at the cell p[i].
Placement(p, f, rot) ==
    LET dims == get_meta_board_dimensions(total_boards)
    IN  [r \in 1..dims[1] |-> [c \in 1..dims[2] |->
            IF <<r - 1, c - 1>> = Anchor THEN BaseBoard(available_boards)
            ELSE IF \E i \in 1..Len(p) : p[i] = <<r - 1, c - 1>>
                 THEN LET i == CHOOSE i \in 1..Len(p) : p[i] = <<r - 1, c - 1>>
                          b == available_boards[f[i]]
                      IN  Board(b.name, Turned(b.board, rot[i]))
                 ELSE generate_blank_board(BoardEdgeLen)]]

\* The placements of the non-base boards on the lists of cells of lists.
Placements(lists) ==
    {Placement(p, f, rot) :
        p \in lists, f \in Assignments, rot \in [1..(total_boards - 1) -> 0..3]}

\* Some layout is recorded, and every such placement is among them.
AllPlacementsRecorded(lists) ==
    \A rec \in {Recorded} : Cardinality(rec) >= 1 /\ Placements(lists) \subseteq rec

RECURSIVE GrowSets(_, _, _)
\* The sets that extend S by k cells, each added cell next to the anchor
\* or to a cell already in the set.
GrowSets(S, k, dims) ==
    IF k = 0 THEN {S}
    ELSE UNION { GrowSets(S \cup {nb}, k - 1, dims)
                 : nb \in (UNION {Neighbours(c, dims) : c \in S \cup {Anchor}})
                          \ (S \cup {Anchor}) }

RECURSIVE ListOf(_)
\* The cells of S, listed in some order.
ListOf(S) ==
    IF S = {} THEN << >>
    ELSE LET c == CHOOSE x \in S : TRUE IN <<c>> \o ListOf(S \ {c})

\* Sets of total_boards - 1 cells that are connected together with the
\* anchor, each as a list.
ConnectedSets ==
    {ListOf(S) : S \in GrowSets({}, total_boards - 1,
                                get_meta_board_dimensions(total_boards))}

RECURSIVE Walks(_, _, _)
\* The self-avoiding walks of k cells that go on from the walk p and keep
\* off the anchor.
Walks(p, k, dims) ==
    IF Len(p) = k THEN {p}
    ELSE UNION { Walks(Append(p, nb), k, dims)
                 : nb \in Neighbours(p[Len(p)], dims)
                          \ ({p[i] : i \in 1..Len(p)} \cup {Anchor}) }

\* The self-avoiding walks of total_boards - 1 cells from the cell above
\* the anchor.
PathSets ==
    Walks(<<AboveAnchor>>, total_boards - 1, get_meta_board_dimensions(total_boards))

\* C3 as stated: every placement of the other boards on a set of cells
\* connected with the anchor is recorded.
C3_AllConnected ==
    (pc = "enumerated" /\ total_boards >= 2) => AllPlacementsRecorded(ConnectedSets)

\* C3, amended: every placement of the other boards along a self-avoiding
\* path that starts at the cell above the anchor is recorded.
C3_AllPaths ==
    (pc = "enumerated" /\ total_boards >= 2) => AllPlacementsRecorded(PathSets)

C3_Witness ==
    /\ pc = "enumerated"
    /\ total_boards = 3
    /\ \E m \in Recorded : <<AboveAnchor[1], AboveAnchor[2] - 1>> \in NonBlank(m)

\* ------------------------------------------------------------------------
\* C8
\* ------------------------------------------------------------------------

\* The tables of the docstrings (paragon.py:112-120 and 146-154).
DimensionsTable ==
    << <<1, 1>>, <<2, 1>>, <<3, 3>>, <<4, 5>>, <<6, 7>>, <<8, 9>>,
       <<10, 11>>, <<12, 13>>, <<14, 15>> >>
StartTable ==
    << <<0, 0>>, <<1, 0>>, <<2, 1>>, <<3, 2>>, <<4, 3>>, <<5, 4>>,
       <<6, 5>>, <<7, 6>>, <<8, 7>> >>

\* C8: the geometry functions return the table values for n = 1..9, the
\* closed forms from n = 4 on, and an anchor inside the dimensions.
C8_Geometry ==
    /\ geo_dims # << >> =>
          /\ geo_n >= 1
          /\ geo_n <= Len(DimensionsTable) => geo_dims = DimensionsTable[geo_n]
          /\ geo_n >= 4 => geo_dims = <<2 * geo_n - 4, 2 * geo_n - 3>>
    /\ geo_start # << >> =>
          /\ geo_n >= 1
          /\ geo_n <= Len(StartTable) => geo_start = StartTable[geo_n]
          /\ geo_n >= 4 => geo_start = <<geo_n - 1, geo_n - 2>>
    /\ (geo_dims # << >> /\ geo_start # << >>) =>
          /\ 0 <= geo_start[1] /\ geo_start[1] < geo_dims[1]
          /\ 0 <= geo_start[2] /\ geo_start[2] < geo_dims[2]

C8_Witness ==
    /\ geo_n = 9
    /\ geo_dims = <<14, 15>>
    /\ geo_start = <<8, 7>>

\* ------------------------------------------------------------------------
\* C9
\* ------------------------------------------------------------------------

\* C9: rotate acts as the cyclic group of quarter turns: a chain of calls
\* turns the board clockwise (sum of the R) mod 4 times, four turns and R+4
\* turns change nothing, and every call keeps the name and the edge length
\* and leaves the board it is called on as it was.
C9_CyclicGroup ==
    /\ [](rot_calls >= 1 =>
            /\ rot_result.name = rot_self.name
            /\ Len(rot_result.board) = Len(rot_self.board)
            /\ \A i \in 1..Len(rot_result.board) :
                  Len(rot_result.board[i]) = Len(rot_self.board)
            /\ rot_result.board = Turned(rot_self.board, rot_total % 4)
            /\ rotate(rot_self, 4).board = rot_self.board
            /\ rotate(rot_self, rot_R + 4) = rotate(rot_self, rot_R)
            /\ rotate(rot_self, 1).board = Clockwise(rot_self.board))
    /\ [][rot_self' = rot_self]_vars

C9_Witness ==
    /\ rot_calls = 2
    /\ rot_R < 0
    /\ rot_total % 4 = 1
    /\ rot_result.board # rot_self.board
    /\ Len(rot_self.board) = 2

====
